---- MODULE Spec2Model ----
(***************************************************************************)
(* State-machine model of snake_pygame.py (class SnakeGame): the game     *)
(* loop run(), the key handler handle_events(), the tick move_snake() /   *)
(* update_food(), the food and obstacle spawners and the leaderboard.     *)
(* Random draws of the program are nondeterministic choices.  Speeds are  *)
(* kept in tenths (4.3 is 43) so that they stay integers.                 *)
(***************************************************************************)
EXTENDS Integers, Sequences, FiniteSets, TLC

(* ------------------------------ bounds -------------------------------- *)
\* side of the square grid the game is played on (30 in the program)
BoardSide == 3
\* side of the square grid the obstacle harness fills
ObstacleSide == 7
\* move_snake calls explored over one run when every random draw is followed
MaxTicks == 2
\* move_snake calls explored over one run when only plain foods are drawn
MaxPlainTicks == 7
\* move_snake calls explored over one run by the session specification
MaxSessionTicks == 3
\* longest concurrent_foods list explored
MaxConcurrent == 2
\* largest eaten-counter explored by the progression harness
MaxEatenArg == 40
\* move_snake calls explored over one run when Rotten foods are followed up
MaxRottenTicks == 2
\* longest concurrent_foods list explored when Rotten foods are followed up
MaxRottenConcurrent == 3
\* move_snake calls explored over one run when the P toggles are observed
MaxPauseTicks == 3
\* largest eaten-counter explored by the obstacle harness
MaxObstacleFoods == 126
\* most additions to the leaderboard and highest score of the leaderboard harness
MaxAdditions == 6
MaxAddedScore == 2
\* longest snake, most obstacles and most concurrent foods of a drawn board
MaxBoardSnake == 3
MaxBoardObstacles == 2
MaxBoardConcurrent == 1
\* mobile-food sessions: ticks made, and ticks already made at the later start
MaxMobileTicks == 3
MobileStart == 4

(* ------------------------- program constants -------------------------- *)
leaderboard_size == 5
food_move_every_n_ticks == 6
min_snake_len == 1
obstacle_every_n_foods == 3
max_obstacles == 40
\* tenths: speed_base 4, speed_step_per_food 0.3, speed_max 15, bonus 0.1
speed_base == 40
speed_step_per_food == 3
speed_max == 150
speed_bonus_step == 1
speed_bonus_after == 10

DIRECTIONS ==
  [UP |-> <<0, -1>>, DOWN |-> <<0, 1>>, LEFT |-> <<-1, 0>>, RIGHT |-> <<1, 0>>]

DirNames == {"UP", "DOWN", "LEFT", "RIGHT"}

\* mutant: a key is refused when the snake already moves that way
BlockedBy_Same == [UP |-> "UP", DOWN |-> "DOWN", LEFT |-> "LEFT", RIGHT |-> "RIGHT"]

\* the direction a key press is compared against (handle_events, movement keys)
BlockedBy == [UP |-> "DOWN", DOWN |-> "UP", LEFT |-> "RIGHT", RIGHT |-> "LEFT"]

Add(p, d) == <<p[1] + d[1], p[2] + d[2]>>

Range(s) == {s[i] : i \in 1 .. Len(s)}

Min(a, b) == IF a <= b THEN a ELSE b

Max(a, b) == IF a >= b THEN a ELSE b

(* ------------------------------- Food --------------------------------- *)
Food(pos, type, is_moving) == [pos |-> pos, type |-> type, is_moving |-> is_moving]

\* self.food = None
NoFood == [pos |-> <<-1, -1>>, type |-> "none", is_moving |-> FALSE]

VARIABLES
  snake, direction, next_direction, score, food_eaten, tick_count,
  game_over, paused, speed, food, obstacles, concurrent_foods,
  waiting_for_initials, player_initials, leaderboard,
  pc,               \* where run() stands in its loop body
  eaten_this_tick,  \* observation: foods consumed by the latest move_snake call
  ticks_left,       \* exploration budget: move_snake calls still allowed
  scope,            \* exploration scope: the random draws that are followed
  pause_mark,       \* observation: phase and state at the latest P toggle
  obstacle_attempts, \* observation: spawn_obstacle calls of the latest meal
  history           \* observation: entries added since the leaderboard was empty

vars ==
  <<snake, direction, next_direction, score, food_eaten, tick_count,
    game_over, paused, speed, food, obstacles, concurrent_foods,
    waiting_for_initials, player_initials, leaderboard, pc,
    eaten_this_tick, ticks_left, scope, pause_mark, obstacle_attempts, history>>

(***************************************************************************)
(* The part of the session the tick works on, as a record, so that the    *)
(* nested calls of move_snake can be composed.  hung is TRUE when a       *)
(* `while True` position search has no cell left to find.                 *)
(***************************************************************************)
World ==
  [snake |-> snake, food |-> food, obstacles |-> obstacles,
   concurrent_foods |-> concurrent_foods, score |-> score,
   food_eaten |-> food_eaten, speed |-> speed, game_over |-> game_over,
   consumed |-> 0, attempts |-> 0, hung |-> FALSE]

(***************************************************************************)
(* Exploration scope.  The food kind and the mobility of a food are random *)
(* draws, the letters typed as initials are inputs; scope says which      *)
(* outcomes of the draws a specification follows and how many letters it  *)
(* lets the player type.                                                  *)
(***************************************************************************)
AllDraws ==
  [rotten |-> TRUE, golden |-> TRUE, mobile |-> TRUE, bonus_mobile |-> FALSE,
   typing |-> 0, concurrent |-> MaxConcurrent,
   marking |-> FALSE, grid |-> BoardSide, first_obstacle |-> FALSE]

PlainDraws ==
  [rotten |-> FALSE, golden |-> FALSE, mobile |-> FALSE, bonus_mobile |-> FALSE,
   typing |-> 0, concurrent |-> MaxConcurrent,
   marking |-> FALSE, grid |-> BoardSide, first_obstacle |-> FALSE]

SessionDraws ==
  [rotten |-> FALSE, golden |-> TRUE, mobile |-> FALSE, bonus_mobile |-> FALSE,
   typing |-> 1, concurrent |-> MaxConcurrent,
   marking |-> FALSE, grid |-> BoardSide, first_obstacle |-> FALSE]

\* Rotten and Normal primaries, static, with room for a second Rotten meal
RottenDraws ==
  [rotten |-> TRUE, golden |-> FALSE, mobile |-> FALSE, bonus_mobile |-> FALSE,
   typing |-> 0, concurrent |-> MaxRottenConcurrent,
   marking |-> FALSE, grid |-> BoardSide, first_obstacle |-> FALSE]

\* plain foods, with the P toggles observed
PauseDraws ==
  [rotten |-> FALSE, golden |-> FALSE, mobile |-> FALSE, bonus_mobile |-> FALSE,
   typing |-> 0, concurrent |-> MaxConcurrent,
   marking |-> TRUE, grid |-> BoardSide, first_obstacle |-> FALSE]

\* plain foods on the larger grid; of the cells spawn_obstacle may draw, the
\* first acceptable one in reading order is followed
ObstacleDraws ==
  [rotten |-> FALSE, golden |-> FALSE, mobile |-> FALSE, bonus_mobile |-> FALSE,
   typing |-> 0, concurrent |-> MaxConcurrent,
   marking |-> FALSE, grid |-> ObstacleSide, first_obstacle |-> TRUE]

\* GRID_SIZE = WINDOW_SIZE // grid_cell, scaled down to the scope's grid
GRID_SIZE == scope.grid

Cells == (0 .. GRID_SIZE - 1) \X (0 .. GRID_SIZE - 1)

InGrid(p) ==
  /\ 0 <= p[1] /\ p[1] < GRID_SIZE
  /\ 0 <= p[2] /\ p[2] < GRID_SIZE

\* outcomes followed of: random.random() < 0.3 (is_moving of a primary food)
DrawnMobility == IF scope.mobile THEN BOOLEAN ELSE {FALSE}

\* the same draw for a concurrent food, whose is_moving no code reads
DrawnBonusMobility == IF scope.bonus_mobile THEN BOOLEAN ELSE {FALSE}

\* outcomes followed of the kind draw of spawn_food that are not Rotten
DrawnKinds == IF scope.golden THEN {"normal", "golden"} ELSE {"normal"}

\* concurrent_foods.append(f), followed while the list stays within the scope
AppendConcurrent(w, f) ==
  IF Len(w.concurrent_foods) < scope.concurrent
  THEN {[w EXCEPT !.concurrent_foods = Append(@, f)]}
  ELSE {}

\* the three-line emptiness test shared by every spawner
IsEmptyCell(w, pos) ==
  /\ pos \notin Range(w.snake)
  /\ pos \notin w.obstacles
  /\ (w.food = NoFood \/ pos # w.food.pos)

FreeCells(w) == {pos \in Cells : IsEmptyCell(w, pos)}

Hang(w) == [w EXCEPT !.hung = TRUE]

\* second half of _spawn_rotten_with_normal: the concurrent Normal food
SpawnRottenNormalPart(w) ==
  IF FreeCells(w) = {} THEN {Hang(w)}
  ELSE UNION {AppendConcurrent(w, Food(pos, "normal", mv)) :
                pos \in FreeCells(w), mv \in DrawnBonusMobility}

SpawnRottenWithNormal(w) ==
  IF w.hung THEN {w}
  ELSE IF FreeCells(w) = {} THEN {Hang(w)}
  ELSE UNION {SpawnRottenNormalPart([w EXCEPT !.food = Food(pos, "rotten", mv)]) :
                pos \in FreeCells(w), mv \in DrawnMobility}

SpawnFood(w) ==
  IF w.hung THEN {w}
  ELSE (IF scope.rotten THEN SpawnRottenWithNormal(w) ELSE {}) \cup
       (IF FreeCells(w) = {} THEN {Hang(w)}
        ELSE {[w EXCEPT !.food = Food(pos, type, mv)] :
                pos \in FreeCells(w), type \in DrawnKinds, mv \in DrawnMobility})

\* the Golden half of _spawn_concurrent_food, after its spawn_food call
SpawnConcurrentGoldenPart(w) ==
  IF w.hung THEN {w}
  ELSE IF FreeCells(w) = {} THEN {Hang(w)}
  ELSE UNION {AppendConcurrent(w, Food(pos, "golden", mv)) :
                pos \in FreeCells(w), mv \in DrawnBonusMobility}

SpawnConcurrentFood(w) ==
  UNION {SpawnConcurrentGoldenPart(w1) : w1 \in SpawnFood(w)}

(* --------------------------- obstacles -------------------------------- *)
DirOrder == <<"UP", "DOWN", "LEFT", "RIGHT">>

\* the while-queue loop of _is_food_accessible
RECURSIVE BFS(_, _, _, _)
BFS(w, new_obstacle, queue, visited) ==
  IF queue = <<>> THEN FALSE
  ELSE
    LET current == Head(queue)
        Passable(next_pos) ==
          /\ InGrid(next_pos)
          /\ next_pos \notin visited
          /\ next_pos \notin Range(w.snake)
          /\ next_pos \notin w.obstacles
          /\ next_pos # new_obstacle
        found == SelectSeq([i \in 1 .. 4 |-> Add(current, DIRECTIONS[DirOrder[i]])],
                           Passable)
    IN IF current = w.food.pos THEN TRUE
       ELSE BFS(w, new_obstacle, Tail(queue) \o found, visited \cup Range(found))

\* mutant: the reachability test accepts every cell
IsFoodAccessible_Always(w, new_obstacle) == TRUE

\* mutant: the search walks through the candidate cell
IsFoodAccessible_ThroughCandidate(w, new_obstacle) ==
  IF w.food = NoFood THEN TRUE
  ELSE BFS(w, <<-1, -1>>, <<w.snake[1]>>, {w.snake[1]})

IsFoodAccessible(w, new_obstacle) ==
  IF w.food = NoFood THEN TRUE
  ELSE BFS(w, new_obstacle, <<w.snake[1]>>, {w.snake[1]})

\* a cell one of the 50 random attempts may commit
ObstacleCandidates(w) == {pos \in FreeCells(w) : IsFoodAccessible(w, pos)}

\* the first committable cell at or after the n-th one, in reading order
RECURSIVE FirstCandidateFrom(_, _)
FirstCandidateFrom(w, n) ==
  IF n >= GRID_SIZE * GRID_SIZE THEN {}
  ELSE LET pos == <<n % GRID_SIZE, n \div GRID_SIZE>>
       IN IF IsEmptyCell(w, pos) /\ IsFoodAccessible(w, pos) THEN {pos}
          ELSE FirstCandidateFrom(w, n + 1)

\* the committed cells the scope follows
DrawnObstacleCells(w) ==
  IF scope.first_obstacle THEN FirstCandidateFrom(w, 0) ELSE ObstacleCandidates(w)

\* mutant: the cap on the number of obstacles is lost
SpawnObstacle_NoCap(w) ==
  IF w.hung THEN {w}
  ELSE LET called == [w EXCEPT !.attempts = @ + 1]
       IN {called} \cup {[called EXCEPT !.obstacles = @ \cup {pos}] :
                           pos \in DrawnObstacleCells(w)}

\* {w} itself: the cap is reached, or all 50 attempts drew a rejected cell
SpawnObstacle(w) ==
  IF w.hung THEN {w}
  ELSE LET called == [w EXCEPT !.attempts = @ + 1]
       IN IF Cardinality(w.obstacles) >= max_obstacles THEN {called}
          ELSE {called} \cup {[called EXCEPT !.obstacles = @ \cup {pos}] :
                                pos \in DrawnObstacleCells(w)}

(* ---------------------- scoring and progression ----------------------- *)
\* mutant: the Rotten penalty has no floor
EatFoodScore_NoFloor(type, s) ==
  IF type = "normal" THEN s + 1
  ELSE IF type = "golden" THEN s + 3
  ELSE IF type = "rotten" THEN s - 1
  ELSE s

\* score after the primary food of the given type is eaten (_eat_food)
EatFoodScore(type, s) ==
  IF type = "normal" THEN s + 1
  ELSE IF type = "golden" THEN s + 3
  ELSE IF type = "rotten" THEN Max(0, s - 1)
  ELSE s

\* score after a concurrent food of the given type is eaten
EatConcurrentScore(type, s) ==
  IF type = "golden" THEN s + 3
  ELSE IF type = "normal" THEN s + 1
  ELSE s

\* mutant: the bonus above ten foods is lost
NewSpeed_NoBonus(eaten) ==
  Min(speed_max, speed_base + eaten * speed_step_per_food)

\* the speed the code stores once the counter has become eaten
NewSpeed(eaten) ==
  LET base_increase == eaten * speed_step_per_food
      speed_increase ==
        IF eaten > speed_bonus_after
        THEN base_increase + (eaten - speed_bonus_after) * speed_bonus_step
        ELSE base_increase
  IN Min(speed_max, speed_base + speed_increase)

\* mutant: an obstacle is attempted after every food
ObstacleDue_Always(eaten) == TRUE

\* mutant: an obstacle is attempted after every second food
ObstacleDue_EverySecond(eaten) == eaten % 2 = 0

ObstacleDue(eaten) == eaten % obstacle_every_n_foods = 0

\* score, food_eaten and speed as a record c
Counters(s, e, sp) == [score |-> s, food_eaten |-> e, speed |-> sp]

\* mutant: a Rotten food counts as eaten and speeds the game up
EatFoodCounters_RottenCounts(type, c) ==
  Counters(EatFoodScore(type, c.score), c.food_eaten + 1,
           NewSpeed(c.food_eaten + 1))

\* what _eat_food does to the counters for a primary food of the given type
EatFoodCounters(type, c) ==
  IF type = "rotten" THEN [c EXCEPT !.score = EatFoodScore(type, @)]
  ELSE Counters(EatFoodScore(type, c.score), c.food_eaten + 1,
                NewSpeed(c.food_eaten + 1))

\* what _eat_concurrent_food does to the counters
EatConcurrentCounters(type, c) ==
  Counters(EatConcurrentScore(type, c.score), c.food_eaten + 1,
           NewSpeed(c.food_eaten + 1))

\* the counters reset() stores
ResetCounters == Counters(0, 0, speed_base)

WithCounters(w, c) ==
  [w EXCEPT !.score = c.score, !.food_eaten = c.food_eaten, !.speed = c.speed]

CountersOf(w) == Counters(w.score, w.food_eaten, w.speed)

\* mutant: the penalty takes two segments
RottenPenalty_PopsTwo(w) ==
  [WithCounters(w, EatFoodCounters("rotten", CountersOf(w)))
     EXCEPT !.snake = IF Len(@) > min_snake_len + 1 THEN SubSeq(@, 1, Len(@) - 2)
                      ELSE <<@[1]>>,
            !.consumed = @ + 1]

\* the Rotten branch of _eat_food up to its _spawn_concurrent_food call
RottenPenalty(w) ==
  [WithCounters(w, EatFoodCounters("rotten", CountersOf(w)))
     EXCEPT !.snake = IF Len(@) > min_snake_len THEN SubSeq(@, 1, Len(@) - 1) ELSE @,
            !.consumed = @ + 1]

EatFood(w) ==
  IF w.hung \/ w.food = NoFood THEN {w}
  ELSE IF w.food.type = "rotten" THEN SpawnConcurrentFood(RottenPenalty(w))
  ELSE
    LET w1 == [WithCounters(w, EatFoodCounters(w.food.type, CountersOf(w)))
                 EXCEPT !.consumed = @ + 1]
    IN UNION {IF ObstacleDue(w2.food_eaten) THEN SpawnObstacle(w2) ELSE {w2} :
                w2 \in SpawnFood(w1)}

EatConcurrentFood(w, cf) ==
  IF w.hung THEN {w}
  ELSE
    LET w1 == [WithCounters(w, EatConcurrentCounters(cf.type, CountersOf(w)))
                 EXCEPT !.consumed = @ + 1]
    IN IF ObstacleDue(w1.food_eaten) THEN SpawnObstacle(w1) ELSE {w1}

(* ----------------------------- move_snake ----------------------------- *)
RemoveAt(s, i) == SubSeq(s, 1, i - 1) \o SubSeq(s, i + 1, Len(s))

\* mutant: the wall test is lost
HitsWall_Never(new_head) == FALSE

\* the three terminal tests of move_snake, in the code's order
HitsWall(new_head) ==
  \/ new_head[1] < 0 \/ new_head[1] >= GRID_SIZE
  \/ new_head[2] < 0 \/ new_head[2] >= GRID_SIZE

\* mutant: the self-collision test is lost
HitsSelf_Never(w, new_head) == FALSE

HitsSelf(w, new_head) == new_head \in Range(w.snake)

\* mutant: the obstacle-collision test is lost
HitsObstacle_Never(w, new_head) == FALSE

HitsObstacle(w, new_head) == new_head \in w.obstacles

\* the for-loop over concurrent_foods: first match eaten and popped
EatFirstConcurrent(w, new_head) ==
  LET hits == {i \in 1 .. Len(w.concurrent_foods) : w.concurrent_foods[i].pos = new_head}
  IN IF w.hung \/ hits = {} THEN {w}
     ELSE LET i == CHOOSE k \in hits : \A j \in hits : k <= j
          IN {[w2 EXCEPT !.concurrent_foods = RemoveAt(@, i)] :
                w2 \in EatConcurrentFood(w, w.concurrent_foods[i])}

\* mutant: the tail is dropped whether or not food was eaten
DropTail_Always(w) ==
  IF w.hung THEN w
  ELSE [w EXCEPT !.snake = SubSeq(@, 1, Len(@) - 1)]

\* if not food_eaten: self.snake.pop()
DropTail(w) ==
  IF w.hung \/ w.consumed > 0 THEN w
  ELSE [w EXCEPT !.snake = SubSeq(@, 1, Len(@) - 1)]

\* move_snake once direction has been committed to dir
MoveSnake(w, dir) ==
  LET new_head == Add(w.snake[1], dir)
  IN IF HitsWall(new_head) THEN {[w EXCEPT !.game_over = TRUE]}
     ELSE IF HitsSelf(w, new_head) THEN {[w EXCEPT !.game_over = TRUE]}
     ELSE IF HitsObstacle(w, new_head) THEN {[w EXCEPT !.game_over = TRUE]}
     ELSE
       LET w1 == [w EXCEPT !.snake = <<new_head>> \o @]
           afterPrimary ==
             IF w1.food # NoFood /\ new_head = w1.food.pos THEN EatFood(w1) ELSE {w1}
           afterConcurrent ==
             UNION {EatFirstConcurrent(w2, new_head) : w2 \in afterPrimary}
       IN {DropTail(w3) : w3 \in afterConcurrent}

(* ----------------------------- leaderboard ---------------------------- *)
Entry(s, initials) == [score |-> s, initials |-> initials]

\* place of e in a list sorted by score, highest first, behind its equals
RECURSIVE InsertDesc(_, _)
InsertDesc(sorted, e) ==
  IF sorted = <<>> THEN <<e>>
  ELSE IF Head(sorted).score >= e.score THEN <<Head(sorted)>> \o InsertDesc(Tail(sorted), e)
  ELSE <<e>> \o sorted

\* list.sort(key=score, reverse=True): stable
RECURSIVE SortDesc(_)
SortDesc(list) ==
  IF list = <<>> THEN <<>>
  ELSE InsertDesc(SortDesc(SubSeq(list, 1, Len(list) - 1)), list[Len(list)])

Truncate(list, n) == SubSeq(list, 1, Min(n, Len(list)))

\* mutant: the new entry is placed before the entries of equal score
AddToLeaderboard_NewFirst(lb, s, initials) ==
  Truncate(SortDesc(<<Entry(s, initials)>> \o lb), leaderboard_size)

AddToLeaderboard(lb, s, initials) ==
  Truncate(SortDesc(Append(lb, Entry(s, initials))), leaderboard_size)

MinScore(lb) == CHOOSE m \in {lb[i].score : i \in 1 .. Len(lb)} :
                  \A i \in 1 .. Len(lb) : m <= lb[i].score

\* mutant: a score equal to the lowest one qualifies
Qualifies_AtLeast(lb, s) ==
  IF Len(lb) < leaderboard_size THEN TRUE
  ELSE IF lb # <<>> THEN s >= MinScore(lb)
  ELSE FALSE

\* the qualifies computation of run() and of _draw_game_over()
Qualifies(lb, s) ==
  IF Len(lb) < leaderboard_size THEN TRUE
  ELSE IF lb # <<>> THEN s > MinScore(lb)
  ELSE FALSE

(* -------------------------------- reset ------------------------------- *)
Center == <<GRID_SIZE \div 2, GRID_SIZE \div 2>>

BlankWorld ==
  [snake |-> <<Center>>, food |-> NoFood, obstacles |-> {},
   concurrent_foods |-> <<>>, score |-> ResetCounters.score,
   food_eaten |-> ResetCounters.food_eaten, speed |-> ResetCounters.speed,
   game_over |-> FALSE, consumed |-> 0, attempts |-> 0, hung |-> FALSE]

\* the worlds reset() can leave: first food spawned, concurrent_foods cleared
ResetWorlds == {[w EXCEPT !.concurrent_foods = <<>>] : w \in SpawnFood(BlankWorld)}

SetWorld(w) ==
  /\ snake' = w.snake
  /\ food' = w.food
  /\ obstacles' = w.obstacles
  /\ concurrent_foods' = w.concurrent_foods
  /\ score' = w.score
  /\ food_eaten' = w.food_eaten
  /\ speed' = w.speed
  /\ game_over' = w.game_over

\* mutant: the frame counter survives the restart
Reset_KeepsTickCount ==
  \E w \in ResetWorlds :
    /\ SetWorld(w)
    /\ direction' = DIRECTIONS.RIGHT
    /\ next_direction' = DIRECTIONS.RIGHT
    /\ tick_count' = tick_count
    /\ paused' = FALSE
    /\ waiting_for_initials' = FALSE
    /\ player_initials' = <<>>

Reset ==
  \E w \in ResetWorlds :
    /\ SetWorld(w)
    /\ direction' = DIRECTIONS.RIGHT
    /\ next_direction' = DIRECTIONS.RIGHT
    /\ tick_count' = 0
    /\ paused' = FALSE
    /\ waiting_for_initials' = FALSE
    /\ player_initials' = <<>>

\* leaderboard.json as found at start-up: absent, or five scores, lowest 1
FullLeaderboard ==
  <<Entry(3, <<"A", "A", "A">>), Entry(2, <<"B", "O", "B">>), Entry(1, <<"A", "A", "A">>),
    Entry(1, <<"C", "A", "T">>), Entry(1, <<"A", "A", "A">>)>>

\* the state __init__ leaves, with the scope and budget of a specification
InitWith(sc, ticks, boards) ==
  /\ scope = sc
  /\ ticks_left = ticks
  /\ \E w \in ResetWorlds :
       /\ snake = w.snake
       /\ food = w.food
       /\ obstacles = w.obstacles
       /\ concurrent_foods = w.concurrent_foods
       /\ score = w.score
       /\ food_eaten = w.food_eaten
       /\ speed = w.speed
       /\ game_over = w.game_over
  /\ direction = DIRECTIONS.RIGHT
  /\ next_direction = DIRECTIONS.RIGHT
  /\ tick_count = 0
  /\ paused = FALSE
  /\ waiting_for_initials = FALSE
  /\ player_initials = <<>>
  /\ leaderboard \in boards
  /\ pc = "events"
  /\ eaten_this_tick = 0
  /\ pause_mark = <<>>
  /\ obstacle_attempts = 0
  /\ history = leaderboard

Init == InitWith(AllDraws, MaxTicks, {FullLeaderboard})

InitPlain == InitWith(PlainDraws, MaxPlainTicks, {FullLeaderboard})

InitSession == InitWith(SessionDraws, MaxSessionTicks, {<<>>, FullLeaderboard})

InitRotten == InitWith(RottenDraws, MaxRottenTicks, {FullLeaderboard})

InitPause == InitWith(PauseDraws, MaxPauseTicks, {FullLeaderboard})

(* ---------------------------- handle_events --------------------------- *)
Keys == {"ESCAPE", "r", "l", "SPACE", "p", "RETURN", "BACKSPACE",
         "UP", "DOWN", "LEFT", "RIGHT"}

\* event.unicode.isalpha()
IsAlpha(k) == k \in {"r", "l", "p", "w", "a", "s", "d"}

\* event.unicode.upper()
Upper(k) ==
  [r |-> "R", l |-> "L", p |-> "P", w |-> "W", a |-> "A", s |-> "S", d |-> "D"][k]

\* the direction a movement key asks for
KeyDirection(k) ==
  IF k \in {"UP", "w"} THEN "UP"
  ELSE IF k \in {"DOWN", "s"} THEN "DOWN"
  ELSE IF k \in {"LEFT", "a"} THEN "LEFT"
  ELSE IF k \in {"RIGHT", "d"} THEN "RIGHT"
  ELSE "NONE"

\* mutant: a movement key is taken whatever the committed direction
Steer_Unchecked(k, dir, next) ==
  IF KeyDirection(k) = "NONE" THEN next ELSE DIRECTIONS[KeyDirection(k)]

\* the value a movement key leaves in next_direction
Steer(k, dir, next) ==
  LET want == KeyDirection(k)
  IN IF want = "NONE" THEN next
     ELSE IF dir # DIRECTIONS[BlockedBy[want]] THEN DIRECTIONS[want]
     ELSE next

gameVars ==
  <<snake, direction, next_direction, score, food_eaten, tick_count,
    game_over, paused, speed, food, obstacles, concurrent_foods>>

\* pygame.QUIT, or K_ESCAPE: record the score unless initials are awaited, exit
Quit ==
  /\ pc = "events"
  /\ leaderboard' = IF ~waiting_for_initials
                    THEN AddToLeaderboard(leaderboard, score, player_initials)
                    ELSE leaderboard
  /\ history' = IF ~waiting_for_initials
                THEN Append(history, Entry(score, player_initials))
                ELSE history
  /\ pc' = "exited"
  /\ UNCHANGED <<gameVars, waiting_for_initials, player_initials,
                 eaten_this_tick, ticks_left, scope, pause_mark, obstacle_attempts>>

\* a letter typed as an initial is followed up to the scope's typing length
KeyExplored(k) ==
  ~(waiting_for_initials /\ IsAlpha(k) /\ Len(player_initials) >= scope.typing)

\* mutant: K_r restarts in any phase
RestartKey_Always(k) == k = "r"

\* the guards of the first four elif branches
RestartKey(k) == k = "r" /\ game_over /\ ~waiting_for_initials

LeaderboardResetKey(k) == k = "l" /\ ~game_over /\ ~paused

SpaceKey(k) == k = "SPACE" /\ ~game_over /\ ~paused

\* mutant: K_p toggles the pause flag of an ended game too
PauseKey_Always(k) == k = "p"

PauseKey(k) == k = "p" /\ ~game_over

\* the elif chain of handle_events for a key other than K_ESCAPE
KeyEffect(k) ==
       IF RestartKey(k) THEN
         /\ Reset
         /\ UNCHANGED leaderboard
       ELSE IF LeaderboardResetKey(k) THEN
         /\ leaderboard' = <<>>
         /\ UNCHANGED <<gameVars, waiting_for_initials, player_initials>>
       ELSE IF SpaceKey(k) THEN
         /\ paused' = ~paused
         /\ UNCHANGED <<snake, direction, next_direction, score, food_eaten,
                        tick_count, game_over, speed, food, obstacles,
                        concurrent_foods, waiting_for_initials, player_initials,
                        leaderboard>>
       ELSE IF PauseKey(k) THEN
         /\ paused' = ~paused
         /\ UNCHANGED <<snake, direction, next_direction, score, food_eaten,
                        tick_count, game_over, speed, food, obstacles,
                        concurrent_foods, waiting_for_initials, player_initials,
                        leaderboard>>
       ELSE IF waiting_for_initials THEN
         IF k = "RETURN" THEN
           /\ leaderboard' = AddToLeaderboard(leaderboard, score, player_initials)
           /\ Reset
         ELSE IF k = "BACKSPACE" THEN
           /\ player_initials' = SubSeq(player_initials, 1, Len(player_initials) - 1)
           /\ UNCHANGED <<gameVars, waiting_for_initials, leaderboard>>
         ELSE IF IsAlpha(k) /\ Len(player_initials) < 3 THEN
           /\ player_initials' = Append(player_initials, Upper(k))
           /\ UNCHANGED <<gameVars, waiting_for_initials, leaderboard>>
         ELSE UNCHANGED <<gameVars, waiting_for_initials, player_initials, leaderboard>>
       ELSE IF ~game_over /\ ~paused /\ ~waiting_for_initials THEN
         /\ next_direction' = Steer(k, direction, next_direction)
         /\ UNCHANGED <<snake, direction, score, food_eaten, tick_count,
                        game_over, paused, speed, food, obstacles,
                        concurrent_foods, waiting_for_initials, player_initials,
                        leaderboard>>
       ELSE UNCHANGED <<gameVars, waiting_for_initials, player_initials, leaderboard>>

(* ------------------------------ phases -------------------------------- *)
Phase ==
  IF waiting_for_initials THEN "AwaitingInitials"
  ELSE IF game_over THEN "GameOver"
  ELSE IF paused THEN "Paused"
  ELSE "Running"

\* the state compared across two P toggles
Snapshot ==
  <<snake, direction, next_direction, food, concurrent_foods, obstacles,
    score, food_eaten, speed, tick_count>>

\* pause_mark after key k: a P toggle records the phase and state it starts
\* from; any other key is noted on the record
MarkOnKey(k) ==
  IF ~scope.marking THEN pause_mark
  ELSE IF PauseKey(k)
       THEN [phase |-> Phase, state |-> Snapshot, only_frames |-> TRUE, frames |-> 0]
  ELSE IF pause_mark = <<>> THEN pause_mark
  ELSE [pause_mark EXCEPT !.only_frames = FALSE]

\* pause_mark after a frame has been drawn
MarkOnFrame ==
  IF pause_mark = <<>> THEN pause_mark
  ELSE [pause_mark EXCEPT !.frames = 1]

\* history after key k: K_l empties the leaderboard, K_RETURN adds to it
HistoryOnKey(k) ==
  IF LeaderboardResetKey(k) THEN <<>>
  ELSE IF waiting_for_initials /\ k = "RETURN"
       THEN Append(history, Entry(score, player_initials))
  ELSE history

\* one KEYDOWN event other than K_ESCAPE
KeyDown ==
  /\ pc = "events"
  /\ \E k \in Keys \ {"ESCAPE"} :
       /\ KeyExplored(k) /\ KeyEffect(k)
       /\ pause_mark' = MarkOnKey(k)
       /\ history' = HistoryOnKey(k)
  /\ UNCHANGED <<pc, eaten_this_tick, ticks_left, scope, obstacle_attempts>>

(* --------------------------------- run -------------------------------- *)
\* mutant: the loop does not look at the pause flag
Running_IgnoresPause == ~game_over /\ ~waiting_for_initials

Running == ~game_over /\ ~paused /\ ~waiting_for_initials

\* first branch of the loop body, first call: move_snake()
Tick ==
  /\ pc = "events"
  /\ Running
  /\ ticks_left > 0
  /\ IF game_over \/ paused
     THEN UNCHANGED <<snake, direction, food, obstacles, concurrent_foods,
                      score, food_eaten, speed, game_over, eaten_this_tick,
                      obstacle_attempts>>
          /\ pc' = "food"
     ELSE /\ direction' = next_direction
          /\ \E w \in MoveSnake(World, next_direction) :
               /\ SetWorld(w)
               /\ eaten_this_tick' = w.consumed
               /\ obstacle_attempts' = w.attempts
               /\ pc' = IF w.hung THEN "hung" ELSE "food"
  /\ ticks_left' = ticks_left - 1
  /\ UNCHANGED <<next_direction, tick_count, paused, waiting_for_initials,
                 player_initials, leaderboard, scope, pause_mark, history>>

\* mutant: update_food does not look at the snake
FoodMoves_OntoSnake ==
  {new_pos \in {Add(food.pos, DIRECTIONS[d]) : d \in DirNames} :
     /\ InGrid(new_pos)
     /\ new_pos \notin obstacles}

\* the cells update_food may move the primary food to
FoodMoves ==
  {new_pos \in {Add(food.pos, DIRECTIONS[d]) : d \in DirNames} :
     /\ InGrid(new_pos)
     /\ new_pos \notin Range(snake)
     /\ new_pos \notin obstacles}

\* mutant: a mobile food moves on every tick
UpdateFood_EveryTick ==
  /\ pc = "food"
  /\ IF food # NoFood /\ food.is_moving /\ FoodMoves # {}
     THEN \E new_pos \in FoodMoves : food' = [food EXCEPT !.pos = new_pos]
     ELSE UNCHANGED food
  /\ tick_count' = tick_count + 1
  /\ pc' = "draw"
  /\ UNCHANGED <<snake, direction, next_direction, score, food_eaten, game_over,
                 paused, speed, obstacles, concurrent_foods, waiting_for_initials,
                 player_initials, leaderboard, eaten_this_tick, ticks_left, scope,
                 pause_mark, obstacle_attempts, history>>

\* rest of the first branch: update_food(), then tick_count += 1
UpdateFood ==
  /\ pc = "food"
  /\ IF food # NoFood /\ food.is_moving /\ tick_count % food_move_every_n_ticks = 0
        /\ FoodMoves # {}
     THEN \E new_pos \in FoodMoves : food' = [food EXCEPT !.pos = new_pos]
     ELSE UNCHANGED food
  /\ tick_count' = tick_count + 1
  /\ pc' = "draw"
  /\ UNCHANGED <<snake, direction, next_direction, score, food_eaten, game_over,
                 paused, speed, obstacles, concurrent_foods, waiting_for_initials,
                 player_initials, leaderboard, eaten_this_tick, ticks_left, scope, pause_mark, obstacle_attempts, history>>

\* second branch of the loop body: game over, initials not yet awaited
CheckQualifies ==
  /\ pc = "events"
  /\ ~Running
  /\ game_over /\ ~waiting_for_initials
  /\ waiting_for_initials' = Qualifies(leaderboard, score)
  /\ pc' = "draw"
  /\ UNCHANGED <<gameVars, player_initials, leaderboard, eaten_this_tick, ticks_left, scope, pause_mark, obstacle_attempts, history>>

\* mutant: the frame counter runs in every frame
IdleFrame_Counts ==
  /\ pc = "events"
  /\ ~Running
  /\ ~(game_over /\ ~waiting_for_initials)
  /\ pc' = "draw"
  /\ tick_count' = tick_count + 1
  /\ UNCHANGED <<snake, direction, next_direction, score, food_eaten, game_over,
                 paused, speed, food, obstacles, concurrent_foods,
                 waiting_for_initials, player_initials, leaderboard,
                 eaten_this_tick, ticks_left, scope, pause_mark,
                 obstacle_attempts, history>>

\* neither branch: paused, or initials awaited
IdleFrame ==
  /\ pc = "events"
  /\ ~Running
  /\ ~(game_over /\ ~waiting_for_initials)
  /\ pc' = "draw"
  /\ UNCHANGED <<gameVars, waiting_for_initials, player_initials, leaderboard,
                 eaten_this_tick, ticks_left, scope, pause_mark, obstacle_attempts, history>>

\* mutant: the game-over overlay does not ask for initials
Draw_NoAsk ==
  /\ pc = "draw"
  /\ pc' = "events"
  /\ pause_mark' = MarkOnFrame
  /\ UNCHANGED <<gameVars, waiting_for_initials, player_initials, leaderboard,
                 eaten_this_tick, ticks_left, scope, obstacle_attempts, history>>

\* draw(): _draw_game_over() raises waiting_for_initials when the score qualifies
Draw ==
  /\ pc = "draw"
  /\ waiting_for_initials' =
       IF game_over /\ Qualifies(leaderboard, score) THEN TRUE
       ELSE waiting_for_initials
  /\ pc' = "events"
  /\ pause_mark' = MarkOnFrame
  /\ UNCHANGED <<gameVars, player_initials, leaderboard, eaten_this_tick, ticks_left, scope, obstacle_attempts, history>>

Next ==
  \/ Quit
  \/ KeyDown
  \/ Tick
  \/ UpdateFood
  \/ CheckQualifies
  \/ IdleFrame
  \/ Draw

Spec == Init /\ [][Next]_vars

SpecPlain == InitPlain /\ [][Next]_vars

SpecSession == InitSession /\ [][Next]_vars

SpecRotten == InitRotten /\ [][Next]_vars

SpecPause == InitPause /\ [][Next]_vars

\* one step of the while True loop of run(): it never waits for the player
LoopStep == Tick \/ UpdateFood \/ CheckQualifies \/ IdleFrame \/ Draw

\* the loop keeps running; key presses are the player's and may never come
SpecSessionFair == InitSession /\ [][Next]_vars /\ WF_vars(LoopStep)

(***************************************************************************)
(* The scoring and progression engine alone: the counter updates of       *)
(* _eat_food, _eat_concurrent_food and reset applied in any order, with   *)
(* the board left aside, so that the eaten-counter can pass the bonus      *)
(* threshold and the speed cap, which no snake on a small grid reaches.    *)
(***************************************************************************)
SetCounters(c) ==
  /\ score' = c.score
  /\ food_eaten' = c.food_eaten
  /\ speed' = c.speed
  /\ UNCHANGED <<snake, direction, next_direction, tick_count, game_over, paused,
                 food, obstacles, concurrent_foods, waiting_for_initials,
                 player_initials, leaderboard, pc, eaten_this_tick, ticks_left,
                 scope, pause_mark, history>>

\* _eat_food called on the board as it stands, for a primary food of any type
ProgressEatFood ==
  /\ food_eaten < MaxEatenArg
  /\ \E type \in {"normal", "golden", "rotten"} :
       \E w \in EatFood([World EXCEPT !.food.type = type]) :
         /\ SetCounters(CountersOf(w))
         /\ obstacle_attempts' = w.attempts

\* _eat_concurrent_food called for a concurrent food of either type
ProgressEatConcurrent ==
  /\ food_eaten < MaxEatenArg
  /\ \E type \in {"normal", "golden"} :
       \E w \in EatConcurrentFood(World, Food(Center, type, FALSE)) :
         /\ SetCounters(CountersOf(w))
         /\ obstacle_attempts' = w.attempts

ProgressReset == SetCounters(ResetCounters) /\ UNCHANGED obstacle_attempts

NextProgress == ProgressEatFood \/ ProgressEatConcurrent \/ ProgressReset

SpecProgress == InitPlain /\ [][NextProgress]_vars

(***************************************************************************)
(* The obstacle set alone: the spawn_obstacle call made for every third    *)
(* food, and reset, applied in any order on a grid with more cells than    *)
(* the cap, the snake and the food staying where reset put them.           *)
(***************************************************************************)
InitObstacles == InitWith(ObstacleDraws, 0, {FullLeaderboard})

\* food_eaten reaches the next multiple of three: spawn_obstacle()
ObstacleTurn ==
  /\ food_eaten + obstacle_every_n_foods <= MaxObstacleFoods
  /\ ObstacleDue(food_eaten + obstacle_every_n_foods)
  /\ food_eaten' = food_eaten + obstacle_every_n_foods
  /\ \E w \in SpawnObstacle(World) :
       obstacles' = w.obstacles /\ obstacle_attempts' = w.attempts
  /\ UNCHANGED <<snake, direction, next_direction, score, tick_count, game_over,
                 paused, speed, food, concurrent_foods, waiting_for_initials,
                 player_initials, leaderboard, pc, eaten_this_tick, ticks_left,
                 scope, pause_mark, history>>

ObstacleReset ==
  /\ Reset
  /\ UNCHANGED <<leaderboard, pc, eaten_this_tick, ticks_left, scope, pause_mark, obstacle_attempts, history>>

NextObstacles == ObstacleTurn \/ ObstacleReset

SpecObstacles == InitObstacles /\ [][NextObstacles]_vars

NoRepeat(s) == \A i, j \in 1 .. Len(s) : i # j => s[i] # s[j]

(* C1: in every reachable state whose phase is Running, no grid cell occurs *)
(* twice in the snake sequence.                                            *)
C1_SnakeCellsDistinct == Phase = "Running" => NoRepeat(snake)

\* a Running snake of five cells whose head lies next to a cell of its own
\* body other than its neck: one more step could bite it
C1_Witness ==
  /\ Phase = "Running"
  /\ Len(snake) >= 5
  /\ \E d \in DirNames : \E i \in 3 .. Len(snake) :
       Add(snake[1], DIRECTIONS[d]) = snake[i]

(* ------------------------ obstacle reachability ----------------------- *)
\* the cells reachable from a set of cells by 4-connected steps off blocked
RECURSIVE Grow(_, _)
Grow(reached, blocked) ==
  LET more == reached \cup
                {c \in Cells \ blocked :
                   \E r \in reached : \E d \in DirNames : Add(r, DIRECTIONS[d]) = c}
  IN IF more = reached THEN reached ELSE Grow(more, blocked)

Connected(from, to, blocked) == to \in Grow({from}, blocked)

\* a step of move_snake that returned
TickStep == pc = "events" /\ pc' = "food"

ObstacleCommitted == TickStep /\ obstacles' # obstacles

(* C2: whenever spawn_obstacle commits a new obstacle cell, right after the *)
(* commit a 4-connected path of in-bounds cells leads from the snake head  *)
(* to the primary food and avoids every obstacle cell, the new one         *)
(* included; the path the code looks for also avoids the snake's body, so  *)
(* both are stated.                                                        *)
C2_ObstacleLeavesFoodReachable ==
  [][ObstacleCommitted =>
       /\ Connected(snake'[1], food'.pos, obstacles')
       /\ Connected(snake'[1], food'.pos,
                    obstacles' \cup (Range(snake') \ {snake'[1]}))]_vars

\* an obstacle has just been committed although some free cell would have
\* cut the head off from the food
C2_Witness ==
  /\ pc = "food"
  /\ eaten_this_tick = 1
  /\ food_eaten = obstacle_every_n_foods
  /\ Cardinality(obstacles) = 1
  /\ \E p \in Cells \ (Range(snake) \cup obstacles \cup {food.pos}) :
       ~Connected(snake[1], food.pos, {p} \cup (Range(snake) \ {snake[1]}))

(* --------------------------- terminal tests --------------------------- *)
\* the cell the head moves onto at the next tick
NewHead == Add(snake[1], next_direction)

Deadly(cell) ==
  \/ cell \notin Cells
  \/ cell \in Range(snake)
  \/ cell \in obstacles

(* C3: on a Running tick the phase becomes GameOver if and only if the new *)
(* head cell, head plus committed direction, lies outside the grid, is a   *)
(* cell of the snake or is an obstacle cell.                               *)
C3_GameOverIffCollision ==
  [][(TickStep /\ Phase = "Running") =>
       ((Phase' = "GameOver") <=> Deadly(NewHead))]_vars

\* a tick has just ended the game on an obstacle
C3_Witness ==
  /\ pc = "food"
  /\ game_over
  /\ Add(snake[1], direction) \in obstacles

(* ------------------------------ steering ------------------------------ *)
Reverse(d) == <<0 - d[1], 0 - d[2]>>

(* C4: queued_direction is never the reverse of direction in any reachable *)
(* state, so the direction a tick commits is never the exact reverse of    *)
(* the direction committed by the tick before it.                          *)
C4_NoReversal == next_direction # Reverse(direction)

\* after at least one turn has been committed a further turn is queued
C4_Witness ==
  /\ Phase = "Running"
  /\ pc = "events"
  /\ tick_count >= 1
  /\ direction # DIRECTIONS.RIGHT
  /\ next_direction # direction
  /\ Len(snake) >= 2

(* --------------------------- phase changes ---------------------------- *)
\* the session as reset() leaves it
FreshSession ==
  /\ snake = <<Center>>
  /\ direction = DIRECTIONS.RIGHT
  /\ next_direction = DIRECTIONS.RIGHT
  /\ score = 0
  /\ food_eaten = 0
  /\ tick_count = 0
  /\ obstacles = {}
  /\ concurrent_foods = <<>>
  /\ player_initials = <<>>

\* nothing of the game but the pause flag differs across the step
OnlyPauseToggled ==
  UNCHANGED <<snake, direction, next_direction, score, food_eaten, tick_count,
              speed, food, obstacles, concurrent_foods>>

PhaseChange(from, to) == Phase = from /\ Phase' = to

LegalPhaseChange ==
  \/ PhaseChange("Running", "Paused") /\ OnlyPauseToggled
  \/ PhaseChange("Paused", "Running") /\ OnlyPauseToggled
  \/ PhaseChange("Running", "GameOver")
  \/ PhaseChange("GameOver", "AwaitingInitials")
  \/ PhaseChange("AwaitingInitials", "Running") /\ FreshSession'
  \/ PhaseChange("GameOver", "Running") /\ FreshSession'

(* C5: every phase change is one of Running->Paused, Paused->Running,      *)
(* Running->GameOver, GameOver->AwaitingInitials, AwaitingInitials->Running *)
(* with reset, or GameOver->Running with reset; pausing and resuming leave *)
(* the game as it was, and no other change of phase is reachable.          *)
C5_OnlyLegalPhaseChanges == [][Phase' # Phase => LegalPhaseChange]_vars

\* a session that ran into game over, had its initials confirmed, was reset,
\* played on and is now paused
C5_Witness ==
  /\ Phase = "Paused"
  /\ Len(leaderboard) = 1
  /\ tick_count >= 1

(* ------------------------- food consumption --------------------------- *)
\* what the tick about to run will find on the cell the head moves onto
Survives == ~Deadly(NewHead)

PrimaryHit == Survives /\ food # NoFood /\ food.pos = NewHead

ConcurrentHits == {i \in 1 .. Len(concurrent_foods) : concurrent_foods[i].pos = NewHead}

ConcurrentHit == Survives /\ ConcurrentHits # {}

\* the concurrent food the for-loop reaches first
FirstHitType ==
  concurrent_foods[CHOOSE i \in ConcurrentHits : \A j \in ConcurrentHits : i <= j].type

Points(type) == IF type = "golden" THEN 3 ELSE 1

FoodCells == (IF food = NoFood THEN {} ELSE {food.pos}) \cup
             {concurrent_foods[i].pos : i \in 1 .. Len(concurrent_foods)}

FoodCount == (IF food = NoFood THEN 0 ELSE 1) + Len(concurrent_foods)

\* the primary food and the concurrent foods lie on pairwise distinct cells
FoodsApart == Cardinality(FoodCells) = FoodCount

(* C6: at most one food item, primary or concurrent, is consumed in any    *)
(* single tick, even when the primary food and concurrent foods occupy the *)
(* cell the head moves onto.                                               *)
C6_AtMostOneFoodPerTick == eaten_this_tick <= 1

(* C7: every newly created food is placed on a cell that holds no other    *)
(* active food, so a tick that starts with the primary and the concurrent  *)
(* foods on pairwise distinct cells ends with them so.                     *)
C7_NewFoodOnEmptyCell == [][(TickStep /\ FoodsApart) => FoodsApart']_vars

(* C8: consuming a Normal food adds exactly 1 to the score and a Golden    *)
(* food exactly 3, as primary or as concurrent food, each such consumption *)
(* adds exactly 1 to the eaten-counter; consuming the Rotten food sets the *)
(* score to max(0, score - 1); the score is never negative.                *)
C8_ScoreDeltas ==
  [][TickStep =>
       LET afterPrimary ==
             IF ~PrimaryHit THEN score
             ELSE IF food.type = "rotten" THEN Max(0, score - 1)
             ELSE score + Points(food.type)
           countedPrimary == IF PrimaryHit /\ food.type # "rotten" THEN 1 ELSE 0
       IN /\ score' = afterPrimary + (IF ConcurrentHit THEN Points(FirstHitType) ELSE 0)
          /\ food_eaten' = food_eaten + countedPrimary + (IF ConcurrentHit THEN 1 ELSE 0)
          /\ score' >= 0]_vars

\* the Rotten food has just been eaten at score 0
C8_Witness ==
  /\ pc = "food"
  /\ eaten_this_tick = 1
  /\ score = 0
  /\ food_eaten = 0
  /\ concurrent_foods # <<>>

(* C9: in every reachable state speed equals, in tenths,                   *)
(* min(150, 40 + 3*eaten + max(0, eaten - 10)) at the current              *)
(* eaten-counter: after reset and after consumptions through the primary   *)
(* or the concurrent path.                                                 *)
C9_SpeedFormula ==
  speed = Min(150, 40 + 3 * food_eaten + Max(0, food_eaten - 10))

\* the cap binds: 35 foods eaten would give 19.5 without it
C9_Witness ==
  /\ food_eaten = 35
  /\ speed = 150
  /\ score > food_eaten

(* C10: a Running tick that does not end the game changes the snake length *)
(* by exactly 0 when no food is consumed, by exactly +1 when a Normal or   *)
(* Golden food is consumed, and by exactly 0 when the Rotten food is       *)
(* consumed.                                                               *)
C10_LengthChange ==
  [][(TickStep /\ ~game_over') =>
       LET change == Len(snake') - Len(snake)
           rottenEaten == PrimaryHit /\ food.type = "rotten"
           growerEaten == (PrimaryHit /\ food.type # "rotten") \/ ConcurrentHit
       IN /\ (~PrimaryHit /\ ~ConcurrentHit) => change = 0
          /\ growerEaten => change = 1
          /\ rottenEaten => change = 0]_vars

(* ---------------------------- length floor ---------------------------- *)
(* C11: in every reachable state the snake length is at least the          *)
(* configured floor min_snake_len; no sequence of Rotten consumptions      *)
(* shrinks the snake below it.                                             *)
C11_LengthFloor == Len(snake) >= min_snake_len

\* a snake at the floor has eaten a Rotten food, then another: the second
\* meal found the two concurrent foods of the first and added a third
C11_Witness ==
  /\ pc = "food"
  /\ eaten_this_tick = 1
  /\ food_eaten = 0
  /\ Len(snake) = min_snake_len
  /\ Len(concurrent_foods) = 3

(* ------------------------ Rotten food recovery ------------------------ *)
RottenEaten == TickStep /\ PrimaryHit /\ food.type = "rotten"

TypesFrom(foods, first) == {foods[i].type : i \in first .. Len(foods)}

(* C12: when the Rotten primary food is consumed, that tick adds exactly   *)
(* two foods to the concurrent-foods collection, one of kind Normal and    *)
(* one of kind Golden.                                                     *)
C12_RottenAddsNormalAndGolden ==
  [][(RottenEaten /\ ~ConcurrentHit) =>
       /\ Len(concurrent_foods') = Len(concurrent_foods) + 2
       /\ SubSeq(concurrent_foods', 1, Len(concurrent_foods)) = concurrent_foods
       /\ TypesFrom(concurrent_foods', Len(concurrent_foods) + 1) = {"normal", "golden"}]_vars

\* reset() has just run: no frame has moved the snake since
JustReset ==
  /\ pc = "events"
  /\ tick_count = 0
  /\ snake = <<Center>>
  /\ score = 0
  /\ food_eaten = 0

\* a tick has replaced the primary food by a Rotten one
RottenSpawned == TickStep /\ food' # food /\ food'.type = "rotten"

HasRecoveryFood == \E i \in 1 .. Len(concurrent_foods) : concurrent_foods[i].type = "normal"

(* C13: after every primary-food spawn whose kind is Rotten, the initial   *)
(* spawn of session start and of restart included, the concurrent-foods    *)
(* collection contains the Normal food created by that spawn.              *)
C13_RottenSpawnHasRecoveryFood ==
  /\ []((JustReset /\ food.type = "rotten") => HasRecoveryFood)
  /\ [][RottenSpawned => HasRecoveryFood']_vars

(* --------------------------- collision tick --------------------------- *)
\* move_snake ends the game
CollisionTick == TickStep /\ game_over'

\* the rest of the frame in which move_snake ended the game
AfterCollision == pc = "food" /\ game_over /\ pc' = "draw"

FoodPositions ==
  <<IF food = NoFood THEN <<>> ELSE food.pos,
    [i \in 1 .. Len(concurrent_foods) |-> concurrent_foods[i].pos]>>

(* C14: on a tick in which a terminal collision occurs nothing of the      *)
(* session changes but the phase: snake, primary and concurrent food       *)
(* positions, obstacles, score, eaten-counter, speed and tick_count are    *)
(* the same after the tick as before it.                                   *)
C14_CollisionTickChangesNothing ==
  [][(CollisionTick \/ AfterCollision) =>
       /\ UNCHANGED <<snake, obstacles, score, food_eaten, speed, tick_count>>
       /\ FoodPositions' = FoodPositions]_vars

(* ---------------------------- pause toggle ---------------------------- *)
\* a K_p press that toggles the pause flag
PToggle ==
  /\ paused' # paused
  /\ pause_mark' = [phase |-> Phase, state |-> Snapshot, only_frames |-> TRUE, frames |-> 0]

\* the session is again as the previous P toggle found it
Restored == Phase' = pause_mark.phase /\ Snapshot' = pause_mark.state

(* C15 as stated: issuing the P toggle twice, from Running or from Paused  *)
(* and with any number of frames in between, returns the session to its    *)
(* original phase with snake, direction, queued direction, foods,          *)
(* obstacles, score, eaten-counter, speed and tick_count unchanged.        *)
C15_PauseTwiceRestores ==
  [][(PToggle /\ pause_mark # <<>> /\ pause_mark.only_frames) => Restored]_vars

(* C15 amended: issuing the P toggle twice starting from Running, with any *)
(* number of frames and of other keys in between, returns the session to   *)
(* Running with snake, direction, queued direction, foods, obstacles,      *)
(* score, eaten-counter, speed and tick_count unchanged.                   *)
C15_PauseTwiceFromRunningRestores ==
  [][(PToggle /\ pause_mark # <<>> /\ pause_mark.phase = "Running") => Restored]_vars

\* paused in mid-game by a P toggle, frames have been drawn since: the
\* second toggle is about to be issued
C15_Witness ==
  /\ pc = "events"
  /\ Phase = "Paused"
  /\ pause_mark # <<>>
  /\ pause_mark.phase = "Running"
  /\ pause_mark.frames = 1
  /\ tick_count >= 1
  /\ Len(snake) >= 2

(* --------------------------- SPACE while paused ----------------------- *)
\* what handle_events does with a K_SPACE press leaves the session Running
SpaceLeadsToRunning == ENABLED (KeyEffect("SPACE") /\ Phase' = "Running")

(* C16: while the session is Paused, pressing SPACE returns it to Running, *)
(* as P does and as the on-screen pause instruction says.                  *)
C16_SpaceUnpauses ==
  (pc = "events" /\ Phase = "Paused") => SpaceLeadsToRunning

(* -------------------------- leaderboard entry ------------------------- *)
\* the ended game's score beats some entry of the leaderboard
BeatsAnEntry == \E i \in 1 .. Len(leaderboard) : score > leaderboard[i].score

\* a game has ended and the frame of its end has been drawn
GameEnded == game_over /\ pc = "events"

(* C17: when a game ends, AwaitingInitials is entered if and only if the   *)
(* leaderboard holds fewer than leaderboard_size entries or the final      *)
(* score is strictly greater than the lowest score on it; a score equal to *)
(* the lowest score of a full leaderboard does not qualify.                *)
C17_AwaitingInitialsIffQualifies ==
  GameEnded =>
    (Phase = "AwaitingInitials" <=>
       (Len(leaderboard) < leaderboard_size \/ BeatsAnEntry))

\* a game ended with the lowest score of a full leaderboard: not asked
C17_Witness ==
  /\ GameEnded
  /\ Len(leaderboard) = leaderboard_size
  /\ score = MinScore(leaderboard)
  /\ Phase = "GameOver"

\* an ended game gives way to a new one
Restarted == game_over /\ ~game_over'

\* the ended game's score and initials are on the leaderboard afterwards
EntryRecorded ==
  \E i \in 1 .. Len(leaderboard') :
    leaderboard'[i] = Entry(score, player_initials)

C19_AwaitingInitialsEventuallyResets ==
  (Phase = "AwaitingInitials" /\ pc # "exited")
    ~> (Phase = "Running" \/ pc = "exited")

(* ------------------------------ obstacles ----------------------------- *)
\* the step ends in the state reset() leaves: a new session starts
SessionStarts == JustReset' /\ obstacles' = {}

(* C20: within a session (between two resets) the obstacle set only grows, *)
(* every obstacle cell of a state being present in the next one, and the   *)
(* number of obstacles never exceeds max_obstacles.                        *)
C20_ObstaclesGrowUpToCap ==
  /\ [](Cardinality(obstacles) <= max_obstacles)
  /\ [][SessionStarts \/ obstacles \subseteq obstacles']_vars

\* the cap is reached, and spawn_obstacle has been called again since
C20_Witness ==
  /\ Cardinality(obstacles) = max_obstacles
  /\ food_eaten > max_obstacles * obstacle_every_n_foods

(* -------------------------- obstacle cadence -------------------------- *)
\* a step in which food may be eaten: move_snake, or a meal of the harness
MealStep == TickStep \/ food_eaten' > food_eaten

(* C21: an obstacle spawn attempt is made exactly when a Normal or Golden  *)
(* consumption, primary or concurrent, raises the eaten-counter to a       *)
(* multiple of obstacle_every_n_foods: one attempt for each such increment *)
(* and none at any other time.                                             *)
C21_ObstacleAttemptCadence ==
  [][/\ MealStep =>
          obstacle_attempts' =
            Cardinality({k \in food_eaten + 1 .. food_eaten' :
                           k % obstacle_every_n_foods = 0})
     /\ ~MealStep => obstacle_attempts' = 0 \/ UNCHANGED obstacle_attempts]_vars

\* the counter has just reached a multiple of three beyond the first and
\* the attempt was made
C21_Witness ==
  /\ obstacle_attempts = 1
  /\ food_eaten = 2 * obstacle_every_n_foods

(***************************************************************************)
(* The spawners as functions of the board: the board is drawn from all the *)
(* boards of the grid with a short snake, few obstacles and at most one    *)
(* concurrent food, each food on a cell free of snake and obstacles and    *)
(* the foods on distinct cells, and one spawner is applied to it.          *)
(***************************************************************************)
\* the snakes of the grid: distinct cells, each next to the one before it
BoardSnakes ==
  {s \in UNION {[1 .. n -> Cells] : n \in 1 .. MaxBoardSnake} :
     /\ NoRepeat(s)
     /\ \A i \in 1 .. Len(s) - 1 :
          \E d \in DirNames : Add(s[i], DIRECTIONS[d]) = s[i + 1]}

BoardObstacles(s) ==
  {o \in SUBSET (Cells \ Range(s)) : Cardinality(o) <= MaxBoardObstacles}

\* the primary food: none (the state reset() passes through), or a static one
BoardFoods(s, o) ==
  {NoFood} \cup {Food(pos, "normal", FALSE) : pos \in Cells \ (Range(s) \cup o)}

BoardConcurrent(s, o, f) ==
  {<<>>} \cup
  (IF MaxBoardConcurrent >= 1
   THEN {<<Food(pos, "golden", FALSE)>> : pos \in Cells \ (Range(s) \cup o \cup {f.pos})}
   ELSE {})

InitBoards ==
  /\ scope = PlainDraws
  /\ snake \in BoardSnakes
  /\ obstacles \in BoardObstacles(snake)
  /\ food \in BoardFoods(snake, obstacles)
  /\ concurrent_foods \in BoardConcurrent(snake, obstacles, food)
  /\ direction = DIRECTIONS.RIGHT
  /\ next_direction = DIRECTIONS.RIGHT
  /\ score = 0
  /\ food_eaten = 0
  /\ speed = speed_base
  /\ tick_count = 0
  /\ game_over = FALSE
  /\ paused = FALSE
  /\ waiting_for_initials = FALSE
  /\ player_initials = <<>>
  /\ leaderboard = <<>>
  /\ pc = "events"
  /\ eaten_this_tick = 0
  /\ ticks_left = 0
  /\ pause_mark = <<>>
  /\ obstacle_attempts = 0
  /\ history = leaderboard

\* the board after the call, the rest of the session left as it is
SetBoard(w) ==
  /\ snake' = w.snake
  /\ food' = w.food
  /\ obstacles' = w.obstacles
  /\ concurrent_foods' = w.concurrent_foods
  /\ obstacle_attempts' = w.attempts
  /\ pc' = IF w.hung THEN "hung" ELSE "called"
  /\ UNCHANGED <<direction, next_direction, score, food_eaten, speed, tick_count,
                 game_over, paused, waiting_for_initials, player_initials,
                 leaderboard, eaten_this_tick, ticks_left, scope, pause_mark, history>>

\* spawn_obstacle() on the drawn board
BoardSpawnObstacle ==
  /\ pc = "events"
  /\ food # NoFood
  /\ \E w \in SpawnObstacle(World) : SetBoard(w)

\* spawn_food() on the drawn board
BoardSpawnFood ==
  /\ pc = "events"
  /\ \E w \in SpawnFood(World) : SetBoard(w)

NextBoards == BoardSpawnObstacle \/ BoardSpawnFood

SpecBoards == InitBoards /\ [][NextBoards]_vars

(* ------------------------- obstacle placement ------------------------- *)
(* C22: an obstacle is committed only on an empty cell: at the commit the  *)
(* cell holds no snake segment, no existing obstacle and no active food,   *)
(* primary or concurrent, so no food lies on an obstacle cell because of   *)
(* an obstacle spawn.                                                      *)
C22_ObstacleOnEmptyCell ==
  [][\A cell \in obstacles' \ obstacles :
       /\ cell \notin Range(snake')
       /\ cell \notin obstacles
       /\ cell \notin FoodCells']_vars

(***************************************************************************)
(* The leaderboard alone: _add_to_leaderboard and reset_leaderboard applied *)
(* in any order to a leaderboard that starts empty.                        *)
(***************************************************************************)
InitLeaderboard == InitWith(PlainDraws, 0, {<<>>})

LeaderboardAdd ==
  /\ Len(history) < MaxAdditions
  /\ \E s \in 0 .. MaxAddedScore, initials \in {<<"A">>, <<"B">>} :
       /\ leaderboard' = AddToLeaderboard(leaderboard, s, initials)
       /\ history' = Append(history, Entry(s, initials))
  /\ UNCHANGED <<gameVars, waiting_for_initials, player_initials, pc,
                 eaten_this_tick, ticks_left, scope, pause_mark, obstacle_attempts>>

LeaderboardReset ==
  /\ leaderboard' = <<>>
  /\ history' = <<>>
  /\ UNCHANGED <<gameVars, waiting_for_initials, player_initials, pc,
                 eaten_this_tick, ticks_left, scope, pause_mark, obstacle_attempts>>

NextLeaderboard == LeaderboardAdd \/ LeaderboardReset

SpecLeaderboard == InitLeaderboard /\ [][NextLeaderboard]_vars

\* entry j of h ranks before entry i: higher score, or equal and added first
RankOf(h, i) ==
  1 + Cardinality({j \in 1 .. Len(h) :
                     \/ h[j].score > h[i].score
                     \/ h[j].score = h[i].score /\ j < i})

\* the best n entries of h in ranking order
TopOf(h, n) ==
  [r \in 1 .. Min(n, Len(h)) |-> h[CHOOSE i \in 1 .. Len(h) : RankOf(h, i) = r]]

(* C23: starting from an empty leaderboard, after any sequence of score    *)
(* additions and leaderboard resets the leaderboard holds at most          *)
(* leaderboard_size entries, ordered by score descending with equal scores *)
(* in insertion order, and equals the top 5 under that order of all        *)
(* entries added since the last leaderboard reset.                         *)
C23_LeaderboardIsTopFive ==
  /\ Len(leaderboard) <= leaderboard_size
  /\ \A i \in 1 .. Len(leaderboard) - 1 :
       leaderboard[i].score >= leaderboard[i + 1].score
  /\ leaderboard = TopOf(history, leaderboard_size)

\* more entries were added than fit, the lowest score is shared by an entry
\* that stayed and one that was dropped
C23_Witness ==
  /\ Len(history) = MaxAdditions
  /\ Len(leaderboard) = leaderboard_size
  /\ \E i \in 1 .. Len(history) :
       /\ history[i].score = leaderboard[leaderboard_size].score
       /\ RankOf(history, i) > leaderboard_size

(* -------------------------------- reset ------------------------------- *)
\* the leaderboard after the step holds what it held, plus the entry the
\* confirm input adds when the reset follows it
LeaderboardKept ==
  IF Phase = "AwaitingInitials"
  THEN leaderboard' = TopOf(Append(leaderboard, Entry(score, player_initials)),
                            leaderboard_size)
  ELSE leaderboard' = leaderboard

(* C24: a reset from any state yields phase Running with the snake a       *)
(* single segment at the grid centre, direction and queued direction       *)
(* RIGHT, score 0, eaten-counter 0, tick_count 0, speed equal to           *)
(* speed_base, no obstacles and exactly one primary food on a cell not     *)
(* occupied by the snake; the reset leaves the leaderboard unchanged.      *)
C24_ResetPostcondition ==
  [][Restarted =>
       /\ Phase' = "Running"
       /\ snake' = <<Center>>
       /\ direction' = DIRECTIONS.RIGHT
       /\ next_direction' = DIRECTIONS.RIGHT
       /\ score' = 0 /\ food_eaten' = 0 /\ tick_count' = 0
       /\ speed' = speed_base
       /\ obstacles' = {}
       /\ food' # NoFood
       /\ food'.pos \in Cells \ Range(snake')
       /\ LeaderboardKept]_vars

\* a new session after a game in which three foods were eaten and the
\* obstacle attempt was made: its score is on the leaderboard
C24_Witness ==
  /\ JustReset
  /\ FreshSession
  /\ Phase = "Running"
  /\ \E i \in 1 .. Len(leaderboard) :
       leaderboard[i].score >= obstacle_every_n_foods /\ leaderboard[i].initials = <<>>

(* ------------------------- frames off Running ------------------------- *)
\* the loop body of run() is entered: the events of the frame are handled
FrameStarts == pc = "events" /\ pc' \notin {"events", "exited"}

\* the simulation state: what a tick works on
Simulation ==
  <<snake, direction, food, concurrent_foods, obstacles, score, food_eaten,
    speed, tick_count>>

(* C25: while the phase is Paused, GameOver or AwaitingInitials a frame of *)
(* the game loop changes none of snake, direction, primary food,           *)
(* concurrent foods, obstacles, score, eaten-counter, speed or tick_count: *)
(* the simulation state advances only in frames entered in Running (and    *)
(* is set anew by a reset).                                                *)
C25_FramesOffRunningChangeNothing ==
  [][/\ (FrameStarts /\ Phase # "Running") => UNCHANGED Simulation
     /\ (pc = "draw" /\ pc' = "events") => UNCHANGED Simulation
     /\ Simulation' # Simulation =>
          \/ FrameStarts /\ Phase = "Running"
          \/ pc = "food"
          \/ Restarted]_vars

\* a frame has just passed over a game paused in mid-play
C25_Witness ==
  /\ pc = "draw"
  /\ Phase = "Paused"
  /\ tick_count >= 1
  /\ Len(snake) >= 2

(* ------------------------ food spawn termination ---------------------- *)
(* C26: every food spawn, the position selection for a primary or a        *)
(* concurrent food, terminates in every reachable state, also when snake,  *)
(* obstacles and food cover all or nearly all of the grid.                 *)
C26_FoodSpawnTerminates == pc # "hung"

(* ------------------------------ initials ------------------------------ *)
(* C27: every entry the session appends to the leaderboard, on confirm of  *)
(* the initials or on quit, carries initials that are a string of exactly  *)
(* 3 letters.                                                              *)
C27_EntriesHaveThreeInitials ==
  \A i \in 1 .. Len(history) : Len(history[i].initials) = 3

(* C28: while the initials prompt is shown (phase AwaitingInitials),       *)
(* pressing R restarts the game, that is resets the session to Running,    *)
(* as the prompt text 'Press ENTER to save, R to restart' states.          *)
C28_RestartWhileAwaitingInitials ==
  (pc = "events" /\ Phase = "AwaitingInitials") =>
    ENABLED (KeyEffect("r") /\ Phase' = "Running")

(* C29: a direction intent changes queued_direction only when the phase is *)
(* Running and the requested direction is not the reverse of the committed *)
(* direction; in Paused, GameOver and AwaitingInitials, and for a          *)
(* reversal, the whole session state is unchanged, and no direction intent *)
(* changes the committed direction, the snake or any field other than      *)
(* queued_direction.                                                       *)
C29_DirectionIntentFrame ==
  pc = "events" =>
    \A k \in {"UP", "DOWN", "LEFT", "RIGHT", "w", "a", "s", "d"} :
      /\ ENABLED KeyEffect(k)
      /\ ~ENABLED
           /\ KeyEffect(k)
           /\ ~ /\ <<snake, direction, food, concurrent_foods, obstacles,
                      score, food_eaten, speed, tick_count>>'
                      = <<snake, direction, food, concurrent_foods, obstacles,
                          score, food_eaten, speed, tick_count>>
                 /\ Phase' = Phase
                 /\ next_direction' # next_direction =>
                      /\ Phase = "Running"
                      /\ direction # DIRECTIONS[BlockedBy[KeyDirection(k)]]

\* a movement key has been taken in Running: the queued direction differs
\* from the committed one
C29_Witness ==
  pc = "events" /\ Phase = "Running" /\ next_direction # direction

\* the drawn boards without concurrent foods, which the search never reads
InitPaths == InitBoards /\ concurrent_foods = <<>>

SpecPaths == InitPaths /\ [][NextBoards]_vars

(* C30: for every head, primary food, snake, obstacle set and candidate    *)
(* cell of the grid, _is_food_accessible(candidate) is true exactly when a *)
(* 4-connected path of in-bounds cells leads from the head to the food     *)
(* whose cells after the head are neither snake cells, obstacle cells nor  *)
(* the candidate; it is true when there is no primary food.                *)
C30_AccessibleIffPath ==
  \A candidate \in Cells :
    LET blocked == (Range(snake) \ {snake[1]}) \cup obstacles \cup {candidate}
    IN IsFoodAccessible(World, candidate)
         <=> (food = NoFood \/ Connected(snake[1], food.pos, blocked))

\* spawn_obstacle has run on a board where one empty candidate cuts the food
\* off from the head and another leaves it reachable
C30_Witness ==
  /\ pc = "called"
  /\ obstacle_attempts = 1
  /\ food # NoFood
  /\ \E cut, open \in Cells \ (Range(snake) \cup obstacles \cup {food.pos}) :
       /\ ~IsFoodAccessible(World, cut)
       /\ IsFoodAccessible(World, open)

(* ----------------------- Rotten food progression ---------------------- *)
(* C31: a tick in which the only food consumed is the Rotten primary food  *)
(* leaves the eaten-counter, the speed and the obstacle set unchanged:     *)
(* Rotten consumption does not increment the counter, does not recompute   *)
(* speed and makes no obstacle spawn attempt.                              *)
C31_RottenLeavesProgression ==
  [][(RottenEaten /\ ~ConcurrentHit) =>
       /\ UNCHANGED <<food_eaten, speed, obstacles>>
       /\ obstacle_attempts' = 0]_vars

\* a Normal food was eaten, then the Rotten one in the tick just made: the
\* score is back at 0 while the counter still stands at 1
C31_Witness ==
  /\ pc = "food"
  /\ eaten_this_tick = 1
  /\ food_eaten = 1
  /\ score = 0
  /\ speed = NewSpeed(1)

(* ---------------------------- food movement --------------------------- *)
(* A session with mobile foods followed across a multiple of               *)
(* food_move_every_n_ticks: it starts after reset(), or MobileStart ticks  *)
(* later with the snake back at the centre heading RIGHT (UP, LEFT, DOWN,  *)
(* RIGHT around the top-left block), nothing eaten, and possibly the       *)
(* Golden food a Rotten meal at length one leaves behind.                  *)
MobileDraws ==
  [rotten |-> FALSE, golden |-> FALSE, mobile |-> TRUE, bonus_mobile |-> FALSE,
   typing |-> 0, concurrent |-> MaxConcurrent,
   marking |-> FALSE, grid |-> BoardSide, first_obstacle |-> FALSE]

InitMobile ==
  /\ scope = MobileDraws
  /\ ticks_left = MaxMobileTicks
  /\ tick_count \in {0, MobileStart}
  /\ \E w \in ResetWorlds :
       /\ snake = w.snake
       /\ food = w.food
       /\ obstacles = w.obstacles
       /\ concurrent_foods \in
            {w.concurrent_foods} \cup
            (IF tick_count = 0 THEN {}
             ELSE {<<Food(pos, "golden", FALSE)>> :
                     pos \in Cells \ (Range(w.snake) \cup {w.food.pos})})
       /\ score = w.score
       /\ food_eaten = w.food_eaten
       /\ speed = w.speed
       /\ game_over = w.game_over
  /\ direction = DIRECTIONS.RIGHT
  /\ next_direction = DIRECTIONS.RIGHT
  /\ paused = FALSE
  /\ waiting_for_initials = FALSE
  /\ player_initials = <<>>
  /\ leaderboard = FullLeaderboard
  /\ pc = "events"
  /\ eaten_this_tick = 0
  /\ pause_mark = <<>>
  /\ obstacle_attempts = 0
  /\ history = leaderboard

SpecMobile == InitMobile /\ [][Next]_vars

C33_PhaseFlagsConsistent ==
  /\ waiting_for_initials => game_over
  /\ ~(paused /\ game_over)

\* a game that ran for two ticks or more has ended and its initials are
\* awaited
C33_Witness ==
  /\ waiting_for_initials /\ game_over /\ ~paused
  /\ pc = "events"
  /\ tick_count >= 2

(* ---------------------------- primary food ---------------------------- *)
(* C34: at every tick boundary after a reset a primary food exists, and    *)
(* its position is inside the grid, is not a snake cell and is not an      *)
(* obstacle cell, for any sequence of moves, consumptions, food movements  *)
(* and obstacle spawns.  A spawner that found no empty cell never returns, *)
(* so no tick boundary follows it.                                         *)
C34_PrimaryFoodOnFreeCell ==
  pc # "hung" =>
    /\ food # NoFood
    /\ InGrid(food.pos)
    /\ food.pos \notin Range(snake)
    /\ food.pos \notin obstacles

\* three foods were eaten, an obstacle was spawned and the mobile food that
\* followed has been moved by the update_food call of the same tick
C34_Witness ==
  /\ pc = "draw"
  /\ tick_count = food_move_every_n_ticks + 1
  /\ food_eaten = obstacle_every_n_foods
  /\ Cardinality(obstacles) = 1
  /\ Len(snake) = 4
  /\ food.is_moving

(* --------------------------- snake placement -------------------------- *)
(* C35: in every reachable state every snake cell lies inside the grid and *)
(* no snake cell is an obstacle cell: the head never enters an obstacle or *)
(* leaves the grid, and no obstacle is placed on a cell the snake          *)
(* occupies.                                                               *)
C35_SnakeInGridOffObstacles ==
  \A i \in 1 .. Len(snake) :
    /\ InGrid(snake[i])
    /\ snake[i] \notin obstacles

\* the game of a snake of five cells or more has ended with the head turned
\* towards an obstacle next to it
C35_Witness ==
  /\ game_over
  /\ Add(snake[1], direction) \in obstacles
  /\ Len(snake) >= 5

C37_ObstaclesPerFoods ==
  Cardinality(obstacles) <= food_eaten \div obstacle_every_n_foods

\* the third food has just been eaten and the obstacle spawn it triggered
\* committed a cell: the bound is met
C37_Witness ==
  /\ pc = "food"
  /\ eaten_this_tick = 1
  /\ food_eaten = obstacle_every_n_foods
  /\ Cardinality(obstacles) = 1
  /\ Len(snake) = 1 + obstacle_every_n_foods

====
